---- MODULE Spec2Model ----
(***************************************************************************)
(* celery_sqlalchemy_scheduler/models.py as a state machine.               *)
(*                                                                         *)
(* The store is the five tables the module declares.  Every caller owns a  *)
(* SQLAlchemy session; a method of models.py that queries, adds and        *)
(* commits is split at those calls, so that the steps of several sessions  *)
(* interleave.  A commit flushes everything the session holds (the rule    *)
(* row of from_schedule, the change row of update_changed, the task        *)
(* mutations the application queued) in one transaction.                   *)
(*                                                                         *)
(* Domain of the inputs: an interval schedule's run_every is a whole       *)
(* number of seconds (possibly zero or negative); coordinates are whole    *)
(* numbers; reads see the last committed state.  Query.first() has no      *)
(* ORDER BY; on these append-only tables it is taken to return the row     *)
(* with the least primary key (the scan order of the table).               *)
(***************************************************************************)
EXTENDS Integers, Sequences, FiniteSets, TLC

\* ---------------------------------------------------------------- bounds
NumSessions == 2
MaxRows == 2
MaxSeconds == 1
MaxTime == 2
MaxTasks == 2
MaxPending == 1
MaxRef == 1

Sessions == 1..NumSessions

\* ------------------------------------------------------------- literals
MICROSECONDS == "microseconds"
SECONDS == "seconds"
MINUTES == "minutes"
HOURS == "hours"
DAYS == "days"

\* NULL of an integer column / Python None of an id or of a timestamp.
Null == 0
None == -1
\* schedule.tz of a crontab built without a timezone.
NoTz == "<None>"

VARIABLES
    celery_interval_schedule,     \* Seq of rows; the id is the index
    celery_crontab_schedule,
    celery_solar_schedule,
    celery_periodic_task_changed, \* id -> [last_update]
    celery_periodic_task,         \* id -> row
    task_seq,                     \* autoincrement counter of celery_periodic_task
    now,                          \* the clock dt.datetime.now reads
    pc,                           \* per session: where its call stands
    call,                         \* per session: the locals of the call in flight
    pending,                      \* per session: task mutations not yet flushed
    identity,                     \* per session: identity-map entry of PeriodicTaskChanged #1
    ret,                          \* per session: what its last call returned or raised
    txlog                         \* what the last committed transaction carried

store == <<celery_interval_schedule, celery_crontab_schedule, celery_solar_schedule,
           celery_periodic_task_changed, celery_periodic_task, task_seq>>
rules == <<celery_interval_schedule, celery_crontab_schedule, celery_solar_schedule>>
vars == <<celery_interval_schedule, celery_crontab_schedule, celery_solar_schedule,
          celery_periodic_task_changed, celery_periodic_task, task_seq,
          now, pc, call, pending, identity, ret, txlog>>

NoCall == [kind |-> "none"]
NoRet == [op |-> "none", status |-> "ok"]

\* ------------------------------------------------------ column defaults
IntervalSchedule_defaults == [every |-> Null, period |-> "NULL"]
CrontabSchedule_defaults ==
    [minute |-> "*", hour |-> "*", day_of_week |-> "*",
     day_of_month |-> "*", month_of_year |-> "*", timezone |-> "UTC"]
SolarSchedule_defaults == [event |-> "NULL", latitude |-> Null, longitude |-> Null]
PeriodicTask_defaults ==
    [name |-> "NULL", interval_id |-> Null, crontab_id |-> Null, solar_id |-> Null,
     enabled |-> TRUE, total_run_count |-> 0]

\* cls(**kw): the attributes given, the column defaults for the rest.
create(defaults, kw) ==
    [k \in DOMAIN defaults |-> IF k \in DOMAIN kw THEN kw[k] ELSE defaults[k]]

\* instance.update(**kw): setattr for every keyword, nothing else.
update(row, kw) ==
    [k \in DOMAIN row |-> IF k \in DOMAIN kw THEN kw[k] ELSE row[k]]

\* --------------------------------------------------------- query helpers
\* session.query(cls).filter_by(**spec): the ids whose row equals spec on
\* every key of spec (and on no other column).
\* Faulty variant of filter_by: a filter that compares nothing and matches no row.
filter_by_nothing(table, spec) ==
    {i \in 1..Len(table) : FALSE}

filter_by(table, spec) ==
    {i \in 1..Len(table) : \A k \in DOMAIN spec : table[i][k] = spec[k]}

\* .first(): the first row of the result, None (Null) when it is empty.
first(ids) ==
    IF ids = {} THEN Null ELSE CHOOSE i \in ids : \A j \in ids : i <= j

\* ------------------------------------------------------------ timedelta
\* datetime.timedelta normalised as Python keeps it.
timedelta_seconds(n) ==
    [days |-> n \div 86400, seconds |-> n % 86400, microseconds |-> 0]

\* timedelta.total_seconds() of a whole-second timedelta.
total_seconds(td) == td.days * 86400 + td.seconds + td.microseconds \div 1000000

max(a, b) == IF a >= b THEN a ELSE b

\* --------------------------------------------------- from_schedule specs
\* IntervalSchedule.from_schedule: every = max(run_every.total_seconds(), 0)
IntervalSchedule_spec(schedule, period) ==
    [every |-> max(total_seconds(schedule.run_every), 0), period |-> period]

\* CrontabSchedule.from_schedule: the five _orig_ fields, and the timezone
\* only when schedule.tz is set.
CrontabSchedule_spec(schedule) ==
    LET spec == [minute |-> schedule.minute, hour |-> schedule.hour,
                 day_of_week |-> schedule.day_of_week,
                 day_of_month |-> schedule.day_of_month,
                 month_of_year |-> schedule.month_of_year]
    IN  IF schedule.tz # NoTz THEN spec @@ ("timezone" :> schedule.tz) ELSE spec

\* SolarSchedule.from_schedule
SolarSchedule_spec(schedule) ==
    [event |-> schedule.event, latitude |-> schedule.lat, longitude |-> schedule.lon]

Table(kind) ==
    CASE kind = "interval" -> celery_interval_schedule
      [] kind = "crontab" -> celery_crontab_schedule
      [] kind = "solar" -> celery_solar_schedule

Defaults(kind) ==
    CASE kind = "interval" -> IntervalSchedule_defaults
      [] kind = "crontab" -> CrontabSchedule_defaults
      [] kind = "solar" -> SolarSchedule_defaults

\* Rows stored or about to be stored: the cap on the rule tables.
InFlight == {s \in Sessions : pc[s] \in {"fs_new", "fs_added"}}
RowBudget ==
    Len(celery_interval_schedule) + Len(celery_crontab_schedule)
        + Len(celery_solar_schedule) + Cardinality(InFlight) < MaxRows

\* ------------------------------------------------------- the unit of work
\* The mapper listeners of PeriodicTask.__declare_last__: each only logs,
\* so the change-version table is what it was.
receive_after_insert_for_cache_query(changed, target) == changed
receive_after_update_for_cache_query(changed, target) == changed
receive_after_delete_for_cache_query(changed, target) == changed

RECURSIVE mapper_events(_, _)
mapper_events(changed, ops) ==
    IF ops = <<>> THEN changed
    ELSE LET op == Head(ops)
             after ==
                 CASE op.op = "insert" -> receive_after_insert_for_cache_query(changed, op)
                   [] op.op = "update" -> receive_after_update_for_cache_query(changed, op)
                   [] op.op = "delete" -> receive_after_delete_for_cache_query(changed, op)
         IN  mapper_events(after, Tail(ops))

\* The flush of a session's queued task mutations: st is
\* [ok, error, rows, seq].  name is unique; an UPDATE or DELETE that matches
\* no row is a StaleDataError.  The first failure aborts the flush.
RECURSIVE flush_tasks(_, _)
flush_tasks(st, ops) ==
    IF ops = <<>> \/ ~st.ok THEN st
    ELSE LET op == Head(ops)
             rows == st.rows
             taken(name, self) ==
                 /\ name # "NULL"
                 /\ \E i \in DOMAIN rows : i # self /\ rows[i].name = name
             fail(e) == [st EXCEPT !.ok = FALSE, !.error = e]
             nxt ==
                 CASE op.op = "insert" ->
                        IF taken(op.row.name, Null) THEN fail("IntegrityError")
                        ELSE [st EXCEPT !.rows = rows @@ ((st.seq + 1) :> op.row),
                                        !.seq = st.seq + 1]
                   [] op.op = "update" ->
                        IF op.id \notin DOMAIN rows THEN fail("StaleDataError")
                        ELSE IF "name" \in DOMAIN op.kw /\ taken(op.kw.name, op.id)
                             THEN fail("IntegrityError")
                        ELSE [st EXCEPT !.rows = [rows EXCEPT ![op.id] = update(@, op.kw)]]
                   [] op.op = "delete" ->
                        IF op.id \notin DOMAIN rows THEN fail("StaleDataError")
                        ELSE [st EXCEPT !.rows = [i \in DOMAIN rows \ {op.id} |-> rows[i]]]
         IN  flush_tasks(nxt, Tail(ops))

\* session.commit() of session s: one transaction holding the task
\* mutations ops the session has queued, the rule row of a from_schedule in flight
\* (kind # "none") and the change row of an update_changed in flight (bump).
\* Either everything is written or, on the first constraint violation,
\* nothing is and the error is raised to the caller.
session_commit(s, ops, op, kind, model, bump, isnew, last_update, returned) ==
    LET t == flush_tasks([ok |-> TRUE, error |-> "ok",
                          rows |-> celery_periodic_task, seq |-> task_seq], ops)
        pkclash == bump /\ isnew /\ 1 \in DOMAIN celery_periodic_task_changed
        ok == t.ok /\ ~pkclash
        error == IF ~t.ok THEN t.error ELSE "IntegrityError"
        changed == mapper_events(celery_periodic_task_changed, ops)
    IN  /\ IF ok
           THEN /\ celery_periodic_task' = t.rows
                /\ task_seq' = t.seq
                /\ celery_interval_schedule' =
                       IF kind = "interval" THEN Append(celery_interval_schedule, model)
                       ELSE celery_interval_schedule
                /\ celery_crontab_schedule' =
                       IF kind = "crontab" THEN Append(celery_crontab_schedule, model)
                       ELSE celery_crontab_schedule
                /\ celery_solar_schedule' =
                       IF kind = "solar" THEN Append(celery_solar_schedule, model)
                       ELSE celery_solar_schedule
                /\ celery_periodic_task_changed' =
                       IF bump THEN (1 :> [last_update |-> last_update]) @@ changed
                       ELSE changed
                /\ txlog' = [tasks |-> Len(ops), bump |-> bump]
           ELSE UNCHANGED <<store, txlog>>
        /\ pending' = [pending EXCEPT ![s] = <<>>]
        /\ identity' = [identity EXCEPT ![s] = None]
        /\ ret' = [ret EXCEPT ![s] =
                      IF ok THEN returned
                      ELSE [op |-> op, status |-> error, lost |-> Len(ops)]]
        /\ pc' = [pc EXCEPT ![s] = "idle"]
        /\ call' = [call EXCEPT ![s] = NoCall]

\* ---------------------------------------------------------- from_schedule
\* Faulty variant of from_schedule_query: a row that was found is added and
\* committed again before it is returned.
from_schedule_query_readd(s, kind, arg, spec) ==
    /\ pc[s] = "idle"
    /\ LET model == first(filter_by(Table(kind), spec))
       IN  IF model # Null
           THEN /\ session_commit(s, pending[s], "from_schedule", kind, Table(kind)[model],
                                  FALSE, FALSE, None,
                                  [op |-> "from_schedule", status |-> "ok",
                                   kind |-> kind, arg |-> arg, id |-> model])
                /\ UNCHANGED now
           ELSE /\ RowBudget
                /\ pc' = [pc EXCEPT ![s] = "fs_new"]
                /\ call' = [call EXCEPT ![s] =
                               [kind |-> kind, arg |-> arg,
                                model |-> create(Defaults(kind), spec)]]
                /\ UNCHANGED <<store, now, pending, identity, ret, txlog>>

\* model = session.query(cls).filter_by(**spec).first(); if not model:
\* model = cls(**spec).  A hit returns at once.
from_schedule_query(s, kind, arg, spec) ==
    /\ pc[s] = "idle"
    /\ LET model == first(filter_by(Table(kind), spec))
       IN  IF model # Null
           THEN /\ ret' = [ret EXCEPT ![s] =
                              [op |-> "from_schedule", status |-> "ok",
                               kind |-> kind, arg |-> arg, id |-> model]]
                /\ UNCHANGED <<store, now, pc, call, pending, identity, txlog>>
           ELSE /\ RowBudget
                /\ pc' = [pc EXCEPT ![s] = "fs_new"]
                /\ call' = [call EXCEPT ![s] =
                               [kind |-> kind, arg |-> arg,
                                model |-> create(Defaults(kind), spec)]]
                /\ UNCHANGED <<store, now, pending, identity, ret, txlog>>

IntervalSchedule_from_schedule(s, schedule, period) ==
    from_schedule_query(s, "interval", [schedule |-> schedule, period |-> period],
                        IntervalSchedule_spec(schedule, period))

CrontabSchedule_from_schedule(s, schedule) ==
    from_schedule_query(s, "crontab", schedule, CrontabSchedule_spec(schedule))

SolarSchedule_from_schedule(s, schedule) ==
    from_schedule_query(s, "solar", schedule, SolarSchedule_spec(schedule))

\* session.add(model)
from_schedule_add(s) ==
    /\ pc[s] = "fs_new"
    /\ pc' = [pc EXCEPT ![s] = "fs_added"]
    /\ UNCHANGED <<store, now, call, pending, identity, ret, txlog>>

\* session.commit(); return model
from_schedule_commit(s) ==
    /\ pc[s] = "fs_added"
    /\ session_commit(s, pending[s], "from_schedule", call[s].kind, call[s].model, FALSE, FALSE, None,
                      [op |-> "from_schedule", status |-> "ok", kind |-> call[s].kind,
                       arg |-> call[s].arg, id |-> Len(Table(call[s].kind)) + 1])
    /\ UNCHANGED now

\* ------------------------------------------------- PeriodicTaskChanged
\* session.query(PeriodicTaskChanged).get(1): the instance of the session's
\* identity map when it holds one, else the committed row; None when there
\* is no row.  The value is the instance's last_update.
query_get(s) ==
    IF identity[s] # None THEN identity[s]
    ELSE IF 1 \in DOMAIN celery_periodic_task_changed
         THEN celery_periodic_task_changed[1].last_update
         ELSE None

\* update_changed, line 211-213: load the row, or build PeriodicTaskChanged(id=1).
update_changed_get(s) ==
    /\ pc[s] = "idle"
    /\ pc' = [pc EXCEPT ![s] = "uc_got"]
    /\ identity' = [identity EXCEPT ![s] = query_get(s)]
    /\ call' = [call EXCEPT ![s] =
                   [kind |-> "update_changed", isnew |-> query_get(s) = None,
                    loaded |-> query_get(s), last_update |-> query_get(s)]]
    /\ UNCHANGED <<store, now, pending, ret, txlog>>

\* Faulty variant of update_changed_set: a row that exists is reset to the epoch instead of stamped
\* with the clock.
update_changed_set_reset(s) ==
    /\ pc[s] = "uc_got"
    /\ pc' = [pc EXCEPT ![s] = "uc_added"]
    /\ call' = [call EXCEPT ![s].last_update = IF call[s].isnew THEN now ELSE 0]
    /\ UNCHANGED <<store, now, pending, identity, ret, txlog>>

\* update_changed, line 214-215: last_update = dt.datetime.now(); session.add
update_changed_set(s) ==
    /\ pc[s] = "uc_got"
    /\ pc' = [pc EXCEPT ![s] = "uc_added"]
    /\ call' = [call EXCEPT ![s].last_update = now]
    /\ UNCHANGED <<store, now, pending, identity, ret, txlog>>

\* Faulty variant of update_changed_commit: the bump is written in a transaction of its own, so it stays
\* when the flush of the session's other changes fails.
update_changed_commit_apart(s) ==
    /\ pc[s] = "uc_added"
    /\ UNCHANGED now
    /\ IF flush_tasks([ok |-> TRUE, error |-> "ok", rows |-> celery_periodic_task,
                       seq |-> task_seq], pending[s]).ok
       THEN session_commit(s, pending[s], "update_changed", "none", NoCall, TRUE,
                           call[s].isnew, call[s].last_update,
                           [op |-> "update_changed", status |-> "ok"])
       ELSE /\ celery_periodic_task_changed' =
                   (1 :> [last_update |-> call[s].last_update]) @@ celery_periodic_task_changed
            /\ UNCHANGED <<rules, celery_periodic_task, task_seq, txlog>>
            /\ pending' = [pending EXCEPT ![s] = <<>>]
            /\ identity' = [identity EXCEPT ![s] = None]
            /\ ret' = [ret EXCEPT ![s] = [op |-> "update_changed", status |-> "IntegrityError",
                                          lost |-> Len(pending[s])]]
            /\ pc' = [pc EXCEPT ![s] = "idle"]
            /\ call' = [call EXCEPT ![s] = NoCall]

\* update_changed, line 216: session.commit().  A new instance is INSERTed
\* with primary key 1, a loaded one is UPDATEd.
update_changed_commit(s) ==
    /\ pc[s] = "uc_added"
    /\ session_commit(s, pending[s], "update_changed", "none", NoCall, TRUE, call[s].isnew,
                      call[s].last_update, [op |-> "update_changed", status |-> "ok"])
    /\ UNCHANGED now

\* last_change(session): the row's last_update, None when there is no row.
last_change(s) ==
    /\ pc[s] = "idle"
    /\ identity' = [identity EXCEPT ![s] = query_get(s)]
    /\ ret' = [ret EXCEPT ![s] =
                  [op |-> "last_change", status |-> "ok", value |-> query_get(s)]]
    /\ UNCHANGED <<store, now, pc, call, pending, txlog>>

\* Faulty variant of changed: the flag is not looked at: the change version is bumped.
changed_whatever(s, no_changes) ==
    /\ pc[s] = "idle"
    /\ celery_periodic_task_changed' =
           (1 :> [last_update |-> now]) @@ celery_periodic_task_changed
    /\ ret' = [ret EXCEPT ![s] =
                  [op |-> "changed", no_changes |-> no_changes, status |-> "ok"]]
    /\ UNCHANGED <<rules, celery_periodic_task, task_seq, now, pc, call, pending,
                   identity, txlog>>

\* changed(instance, session): `if not instance.no_changes:
\* cls.update_changed()`; update_changed takes the session as its one
\* argument and is called with none, which raises TypeError before its
\* body runs.
changed(s, no_changes) ==
    /\ pc[s] = "idle"
    /\ ret' = [ret EXCEPT ![s] =
                  [op |-> "changed", no_changes |-> no_changes,
                   status |-> IF no_changes THEN "ok" ELSE "TypeError"]]
    /\ UNCHANGED <<store, now, pc, call, pending, identity, txlog>>

\* The clock moves on.
Tick ==
    /\ now < MaxTime
    /\ now' = now + 1
    /\ UNCHANGED <<store, pc, call, pending, identity, ret, txlog>>

\* ----------------------------------------------------------- PeriodicTask
TaskBudget ==
    task_seq + Cardinality({s \in Sessions :
                               \E i \in 1..Len(pending[s]) : pending[s][i].op = "insert"})
        < MaxTasks

\* PeriodicTask.create(**kw) and session.add of the new instance.
PeriodicTask_create(s, kw) ==
    /\ pc[s] = "idle"
    /\ Len(pending[s]) < MaxPending
    /\ TaskBudget
    /\ pending' = [pending EXCEPT ![s] =
                      Append(@, [op |-> "insert", row |-> create(PeriodicTask_defaults, kw)])]
    /\ UNCHANGED <<store, now, pc, call, identity, ret, txlog>>

\* instance.update(**kw) on a task loaded in the session.
PeriodicTask_update(s, id, kw) ==
    /\ pc[s] = "idle"
    /\ Len(pending[s]) < MaxPending
    /\ id \in DOMAIN celery_periodic_task
    /\ pending' = [pending EXCEPT ![s] = Append(@, [op |-> "update", id |-> id, kw |-> kw])]
    /\ UNCHANGED <<store, now, pc, call, identity, ret, txlog>>

\* session.delete(instance)
PeriodicTask_delete(s, id) ==
    /\ pc[s] = "idle"
    /\ Len(pending[s]) < MaxPending
    /\ id \in DOMAIN celery_periodic_task
    /\ pending' = [pending EXCEPT ![s] = Append(@, [op |-> "delete", id |-> id])]
    /\ UNCHANGED <<store, now, pc, call, identity, ret, txlog>>

\* The application commits what it queued.
commit(s) ==
    /\ pc[s] = "idle"
    /\ pending[s] # <<>>
    /\ session_commit(s, pending[s], "commit", "none", NoCall, FALSE, FALSE, None,
                      [op |-> "commit", status |-> "ok"])
    /\ UNCHANGED now

\* PeriodicTask.create(**kw), session.add and session.commit at once.
save_created(s, kw) ==
    /\ pc[s] = "idle"
    /\ pending[s] = <<>>
    /\ TaskBudget
    /\ session_commit(s, <<[op |-> "insert", row |-> create(PeriodicTask_defaults, kw)]>>,
                      "commit", "none", NoCall, FALSE, FALSE, None,
                      [op |-> "commit", status |-> "ok"])
    /\ UNCHANGED now

\* instance.update(**kw) on a stored task and session.commit at once.
save_updated(s, id, kw) ==
    /\ pc[s] = "idle"
    /\ pending[s] = <<>>
    /\ id \in DOMAIN celery_periodic_task
    /\ session_commit(s, <<[op |-> "update", id |-> id, kw |-> kw]>>,
                      "commit", "none", NoCall, FALSE, FALSE, None,
                      [op |-> "commit", status |-> "ok"])
    /\ UNCHANGED now

\* ------------------------------------------------- rule rows by hand
\* cls.create(**kw) of a rule class, session.add and session.commit at once:
\* the row is stored as given, the column defaults for the rest.
rule_save_created(s, kind, kw) ==
    /\ pc[s] = "idle"
    /\ pending[s] = <<>>
    /\ RowBudget
    /\ session_commit(s, <<>>, "create", kind, create(Defaults(kind), kw), FALSE, FALSE, None,
                      [op |-> "create", status |-> "ok", kind |-> kind,
                       id |-> Len(Table(kind)) + 1])
    /\ UNCHANGED now

\* instance.update(**kw) on a stored rule row and session.commit at once:
\* setattr for every keyword, then the UPDATE of the row.
rule_save_updated(s, kind, id, kw) ==
    /\ pc[s] = "idle"
    /\ pending[s] = <<>>
    /\ id \in 1..Len(Table(kind))
    /\ celery_interval_schedule' =
           IF kind = "interval" THEN [celery_interval_schedule EXCEPT ![id] = update(@, kw)]
           ELSE celery_interval_schedule
    /\ celery_crontab_schedule' =
           IF kind = "crontab" THEN [celery_crontab_schedule EXCEPT ![id] = update(@, kw)]
           ELSE celery_crontab_schedule
    /\ celery_solar_schedule' =
           IF kind = "solar" THEN [celery_solar_schedule EXCEPT ![id] = update(@, kw)]
           ELSE celery_solar_schedule
    /\ identity' = [identity EXCEPT ![s] = None]
    /\ ret' = [ret EXCEPT ![s] = [op |-> "update", status |-> "ok", kind |-> kind, id |-> id,
                                  kw |-> kw]]
    /\ UNCHANGED <<celery_periodic_task_changed, celery_periodic_task, task_seq,
                   now, pc, call, pending, txlog>>

\* The application gives up what it queued.
rollback(s) ==
    /\ pc[s] = "idle"
    /\ pending[s] # <<>>
    /\ pending' = [pending EXCEPT ![s] = <<>>]
    /\ identity' = [identity EXCEPT ![s] = None]
    /\ ret' = [ret EXCEPT ![s] = [op |-> "rollback", status |-> "rolled back",
                                     lost |-> Len(pending[s])]]
    /\ UNCHANGED <<store, now, pc, call, txlog>>

\* ------------------------------------------------------------- schedules
\* Faulty variant of timedelta: the count is taken as seconds whatever the period.
timedelta_in_seconds(period, every) ==
    [days |-> every \div 86400, seconds |-> every % 86400, microseconds |-> 0]

\* dt.timedelta(**{period: every}), normalised.
timedelta(period, every) ==
    LET secs ==
            CASE period = MICROSECONDS -> every \div 1000000
              [] period = SECONDS -> every
              [] period = MINUTES -> every * 60
              [] period = HOURS -> every * 3600
              [] period = DAYS -> every * 86400
        micros == IF period = MICROSECONDS THEN every % 1000000 ELSE 0
    IN  [days |-> secs \div 86400, seconds |-> secs % 86400, microseconds |-> micros]

\* IntervalSchedule.schedule
IntervalSchedule_schedule(row) ==
    [type |-> "schedule", run_every |-> timedelta(row.period, row.every)]

\* A point in time, kept like a timedelta since the epoch: t + d, and t >= u.
datetime_add(t, d) ==
    LET micros == t.microseconds + d.microseconds
        secs == t.seconds + d.seconds + micros \div 1000000
    IN  [days |-> t.days + d.days + secs \div 86400, seconds |-> secs % 86400,
         microseconds |-> micros % 1000000]
datetime_ge(t, u) ==
    \/ t.days > u.days
    \/ t.days = u.days /\ t.seconds > u.seconds
    \/ t.days = u.days /\ t.seconds = u.seconds /\ t.microseconds >= u.microseconds

\* due(reference_time) of an interval schedule last run at last_run_at: the
\* next run is one run_every after the last, and it is due from then on.
due(schedule, last_run_at, reference_time) ==
    LET next_run_time == datetime_add(last_run_at, schedule.run_every)
    IN  [is_due |-> datetime_ge(reference_time, next_run_time),
         next_run_time |-> next_run_time]

\* A caller asks the schedule of interval row id whether it is due.
read_due(s, id, last_run_at, reference_time) ==
    /\ pc[s] = "idle"
    /\ id \in 1..Len(celery_interval_schedule)
    /\ ret' = [ret EXCEPT ![s] =
                  [op |-> "due", status |-> "ok", id |-> id, last_run_at |-> last_run_at,
                   reference_time |-> reference_time,
                   value |-> due(IntervalSchedule_schedule(celery_interval_schedule[id]),
                                 last_run_at, reference_time)]]
    /\ UNCHANGED <<store, now, pc, call, pending, identity, txlog>>

\* CrontabSchedule.schedule: the five fields; the tz argument is commented out.
CrontabSchedule_schedule(row) ==
    [type |-> "crontab", minute |-> row.minute, hour |-> row.hour,
     day_of_week |-> row.day_of_week, day_of_month |-> row.day_of_month,
     month_of_year |-> row.month_of_year, tz |-> NoTz]

\* The values a crontab field-spec stands for, and the range of each field;
\* the wildcard stands for the whole range.
CronValues(fieldspec) ==
    CASE fieldspec = "*/15" -> {0, 15, 30, 45}
      [] fieldspec = "1-5" -> 1..5
      [] fieldspec = "0" -> {0}
      [] fieldspec = "1" -> {1}
      [] fieldspec = "6" -> {6}
      [] fieldspec = "9" -> {9}
      [] fieldspec = "25" -> {25}
CronDomain ==
    [minute |-> 0..59, hour |-> 0..23, day_of_week |-> 0..6,
     day_of_month |-> 1..31, month_of_year |-> 1..12]
crontab_expand(schedule, field) ==
    IF schedule[field] = "*" THEN CronDomain[field] ELSE CronValues(schedule[field])

\* Minutes a zone's civil time is ahead of UTC; a TzAwareCrontab built
\* without tz evaluates in UTC.
utcoffset(tz) ==
    CASE tz = "UTC" -> 0
      [] tz = "Asia/Shanghai" -> 480
      [] tz = NoTz -> 0

\* The next run of a crontab schedule whose day fields are wildcards: the
\* earliest minute after reference_time (minutes since the epoch, UTC) whose
\* civil hour and minute in schedule.tz match the hour and minute fields.
TzAwareCrontab_next(schedule, reference_time) ==
    LET runs == {reference_time + 1
                    + ((h * 60 + m - utcoffset(schedule.tz) - reference_time - 1) % 1440) :
                    h \in crontab_expand(schedule, "hour"),
                    m \in crontab_expand(schedule, "minute")}
    IN  CHOOSE t \in runs : \A u \in runs : t <= u

\* A caller asks the schedule of crontab row id for its next run.
read_next_run(s, id, reference_time) ==
    /\ pc[s] = "idle"
    /\ id \in 1..Len(celery_crontab_schedule)
    /\ ret' = [ret EXCEPT ![s] =
                  [op |-> "next_run", status |-> "ok", id |-> id,
                   reference_time |-> reference_time,
                   value |-> TzAwareCrontab_next(
                                 CrontabSchedule_schedule(celery_crontab_schedule[id]),
                                 reference_time)]]
    /\ UNCHANGED <<store, now, pc, call, pending, identity, txlog>>

\* SolarSchedule.schedule
SolarSchedule_schedule(row) ==
    [type |-> "solar", event |-> row.event, lat |-> row.latitude, lon |-> row.longitude]

\* The relationships of PeriodicTask: the rule row whose id the column
\* holds; None when the column is NULL or no row has that id (the columns
\* carry no foreign key).
relationship(table, id) == IF id \in 1..Len(table) THEN id ELSE Null
interval(task) == relationship(celery_interval_schedule, task.interval_id)
crontab(task) == relationship(celery_crontab_schedule, task.crontab_id)
solar(task) == relationship(celery_solar_schedule, task.solar_id)

\* Faulty variant of PeriodicTask_schedule: no schedule is a silent None instead of an error.
PeriodicTask_schedule_silent(task) ==
    IF interval(task) # Null
    THEN [status |-> "ok",
          value |-> IntervalSchedule_schedule(celery_interval_schedule[interval(task)])]
    ELSE IF crontab(task) # Null
    THEN [status |-> "ok",
          value |-> CrontabSchedule_schedule(celery_crontab_schedule[crontab(task)])]
    ELSE IF solar(task) # Null
    THEN [status |-> "ok",
          value |-> SolarSchedule_schedule(celery_solar_schedule[solar(task)])]
    ELSE [status |-> "ok", value |-> [type |-> "None"]]

\* Faulty variant of PeriodicTask_schedule: the crontab is looked at before the
\* interval.
PeriodicTask_schedule_crontab_first(task) ==
    IF crontab(task) # Null
    THEN [status |-> "ok",
          value |-> CrontabSchedule_schedule(celery_crontab_schedule[crontab(task)])]
    ELSE IF interval(task) # Null
    THEN [status |-> "ok",
          value |-> IntervalSchedule_schedule(celery_interval_schedule[interval(task)])]
    ELSE IF solar(task) # Null
    THEN [status |-> "ok",
          value |-> SolarSchedule_schedule(celery_solar_schedule[solar(task)])]
    ELSE [status |-> "ValueError", value |-> [type |-> "None"]]

\* PeriodicTask.schedule
PeriodicTask_schedule(task) ==
    IF interval(task) # Null
    THEN [status |-> "ok",
          value |-> IntervalSchedule_schedule(celery_interval_schedule[interval(task)])]
    ELSE IF crontab(task) # Null
    THEN [status |-> "ok",
          value |-> CrontabSchedule_schedule(celery_crontab_schedule[crontab(task)])]
    ELSE IF solar(task) # Null
    THEN [status |-> "ok",
          value |-> SolarSchedule_schedule(celery_solar_schedule[solar(task)])]
    ELSE [status |-> "ValueError", value |-> [type |-> "None"]]

\* A caller reads task.schedule of a stored task.
read_schedule(s, id) ==
    /\ pc[s] = "idle"
    /\ id \in DOMAIN celery_periodic_task
    /\ ret' = [ret EXCEPT ![s] =
                  [op |-> "schedule", id |-> id,
                   status |-> PeriodicTask_schedule(celery_periodic_task[id]).status,
                   value |-> PeriodicTask_schedule(celery_periodic_task[id]).value]]
    /\ UNCHANGED <<store, now, pc, call, pending, identity, txlog>>

\* ------------------------------------------------------------ the inputs
Periods == {MICROSECONDS, SECONDS, MINUTES, HOURS, DAYS}
IntervalInputs == {[run_every |-> timedelta_seconds(n)] : n \in -1..MaxSeconds}
ResolvePeriods == {SECONDS, MINUTES}

CronFields == {"minute", "hour", "day_of_week", "day_of_month", "month_of_year"}
CronOther ==
    [minute |-> "*/15", hour |-> "9", day_of_week |-> "1-5",
     day_of_month |-> "1", month_of_year |-> "6"]
CronFieldSpecs ==
    {[f \in CronFields |-> "*"]}
        \cup {[f \in CronFields |-> IF f = g THEN CronOther[g] ELSE "*"] : g \in CronFields}
Timezones == {"UTC", "Asia/Shanghai"}
CrontabInputs ==
    {c @@ ("tz" :> z) : c \in CronFieldSpecs, z \in Timezones \cup {NoTz}}

SolarInputs ==
    {[event |-> "sunrise", lat |-> 0, lon |-> 0], [event |-> "sunset", lat |-> 0, lon |-> 0],
     [event |-> "sunrise", lat |-> 45, lon |-> 0], [event |-> "sunrise", lat |-> 0, lon |-> 90]}

TaskNames == {"a"}
RefIds == 0..MaxRef
\* Keyword sets of PeriodicTask.create / update.
NameKws == {[name |-> n] : n \in TaskNames}
RunKws == {[total_run_count |-> 1]}
RefKws ==
    {[name |-> "a", interval_id |-> i, crontab_id |-> c, solar_id |-> so] :
        i \in RefIds, c \in RefIds, so \in RefIds}
RefUpdateKws ==
    {[interval_id |-> i] : i \in RefIds} \cup {[crontab_id |-> c] : c \in RefIds}
        \cup {[solar_id |-> so] : so \in RefIds}
TaskIds == 1..MaxTasks

\* ------------------------------------------------------- specifications
Init ==
    /\ celery_interval_schedule = <<>>
    /\ celery_crontab_schedule = <<>>
    /\ celery_solar_schedule = <<>>
    /\ celery_periodic_task_changed = <<>>
    /\ celery_periodic_task = <<>>
    /\ task_seq = 0
    /\ now = 0
    /\ pc = [s \in Sessions |-> "idle"]
    /\ call = [s \in Sessions |-> NoCall]
    /\ pending = [s \in Sessions |-> <<>>]
    /\ identity = [s \in Sessions |-> None]
    /\ ret = [s \in Sessions |-> NoRet]
    /\ txlog = [tasks |-> 0, bump |-> FALSE]

\* One step of a from_schedule call of session s.
Resolve(s) ==
    \/ \E schedule \in IntervalInputs, period \in ResolvePeriods :
           IntervalSchedule_from_schedule(s, schedule, period)
    \/ \E schedule \in CrontabInputs : CrontabSchedule_from_schedule(s, schedule)
    \/ \E schedule \in SolarInputs : SolarSchedule_from_schedule(s, schedule)
    \/ from_schedule_add(s)
    \/ from_schedule_commit(s)

Alone(s) == \A t \in Sessions \ {s} : pc[t] = "idle"

\* Callers resolving rules concurrently, each in its own session.
ResolveNext == \E s \in Sessions : Resolve(s)
SpecResolve == Init /\ [][ResolveNext]_vars

\* Callers resolving rules one call at a time: a call starts and runs to
\* its return while every other session is idle.
ResolveSeq(s) ==
    \/ Alone(s) /\ \E schedule \in IntervalInputs, period \in ResolvePeriods :
                       IntervalSchedule_from_schedule(s, schedule, period)
    \/ Alone(s) /\ \E schedule \in CrontabInputs : CrontabSchedule_from_schedule(s, schedule)
    \/ Alone(s) /\ \E schedule \in SolarInputs : SolarSchedule_from_schedule(s, schedule)
    \/ Alone(s) /\ from_schedule_add(s)
    \/ Alone(s) /\ from_schedule_commit(s)
ResolveSeqNext == \E s \in Sessions : ResolveSeq(s)
SpecResolveSeq == Init /\ [][ResolveSeqNext]_vars

\* The change tracker alone: sessions bumping and reading the change
\* version while the clock moves.
ChangeNext ==
    \/ \E s \in Sessions : update_changed_get(s)
    \/ \E s \in Sessions : update_changed_set(s)
    \/ \E s \in Sessions : update_changed_commit(s)
    \/ \E s \in Sessions : last_change(s)
    \/ \E s \in Sessions, no_changes \in BOOLEAN : changed(s, no_changes)
    \/ Tick
SpecChange == Init /\ [][ChangeNext]_vars

\* Task mutations and the change tracker in the sessions' transactions.
TxnNext ==
    \/ \E s \in Sessions, kw \in NameKws : PeriodicTask_create(s, kw)
    \/ \E s \in Sessions, id \in TaskIds, kw \in RunKws : PeriodicTask_update(s, id, kw)
    \/ \E s \in Sessions, id \in TaskIds : PeriodicTask_delete(s, id)
    \/ \E s \in Sessions : commit(s)
    \/ \E s \in Sessions : rollback(s)
    \/ \E s \in Sessions : update_changed_get(s)
    \/ \E s \in Sessions : update_changed_set(s)
    \/ \E s \in Sessions : update_changed_commit(s)
SpecTxn == Init /\ [][TxnNext]_vars

\* Tasks bound to rules: rules are resolved, tasks are created and edited
\* (each change committed at once), and task.schedule is read.
TaskRuleInputs == {[run_every |-> timedelta_seconds(1)]}
TaskCronInputs == {[f \in CronFields |-> "*"] @@ ("tz" :> "UTC")}
TaskSolarInputs == {[event |-> "sunrise", lat |-> 0, lon |-> 0]}
TaskNext ==
    \/ \E s \in Sessions, schedule \in TaskRuleInputs :
           IntervalSchedule_from_schedule(s, schedule, SECONDS)
    \/ \E s \in Sessions, schedule \in TaskCronInputs :
           CrontabSchedule_from_schedule(s, schedule)
    \/ \E s \in Sessions, schedule \in TaskSolarInputs :
           SolarSchedule_from_schedule(s, schedule)
    \/ \E s \in Sessions : from_schedule_add(s)
    \/ \E s \in Sessions : from_schedule_commit(s)
    \/ \E s \in Sessions, kw \in RefKws : save_created(s, kw)
    \/ \E s \in Sessions, id \in TaskIds, kw \in RefUpdateKws : save_updated(s, id, kw)
    \/ \E s \in Sessions, id \in TaskIds : read_schedule(s, id)
SpecTask == Init /\ [][TaskNext]_vars

\* Rule rows made and edited by hand next to the resolving callers.
RuleCreateKws(kind) ==
    CASE kind = "interval" -> {[every |-> e, period |-> SECONDS] : e \in 0..MaxSeconds}
      [] kind = "crontab" -> {[hour |-> "9"], [hour |-> "25"]}
      [] kind = "solar" -> {[event |-> "sunrise", latitude |-> 45, longitude |-> 0],
                            [event |-> "sunrise", latitude |-> 91, longitude |-> 0]}
RuleUpdateKws(kind) ==
    CASE kind = "interval" -> {[every |-> e] : e \in 1..MaxSeconds + 1}
      [] kind = "crontab" -> {[hour |-> "9"], [timezone |-> "Asia/Shanghai"]}
      [] kind = "solar" -> {[latitude |-> 45], [event |-> "sunset"]}
RuleIds == 1..MaxRows
RuleNext ==
    \/ \E s \in Sessions, schedule \in IntervalInputs :
           IntervalSchedule_from_schedule(s, schedule, SECONDS)
    \/ \E s \in Sessions, schedule \in TaskCronInputs :
           CrontabSchedule_from_schedule(s, schedule)
    \/ \E s \in Sessions, schedule \in TaskSolarInputs :
           SolarSchedule_from_schedule(s, schedule)
    \/ \E s \in Sessions : from_schedule_add(s)
    \/ \E s \in Sessions : from_schedule_commit(s)
    \/ \E s \in Sessions, kind \in {"interval", "crontab", "solar"} :
           \E kw \in RuleCreateKws(kind) : rule_save_created(s, kind, kw)
    \/ \E s \in Sessions, kind \in {"interval", "crontab", "solar"}, id \in RuleIds :
           \E kw \in RuleUpdateKws(kind) : rule_save_updated(s, kind, id, kw)
SpecRule == Init /\ [][RuleNext]_vars

\* Interval rows of every period, and their schedules asked whether they
\* are due.
DueEverys == {1, 10}
DueKws == {[every |-> e, period |-> p] : e \in DueEverys, p \in Periods}
at(days, seconds, microseconds) ==
    [days |-> days, seconds |-> seconds, microseconds |-> microseconds]
LastRuns == {at(0, 0, 0), at(0, 86399, 999999)}
ReferenceTimes == {at(0, 0, 1), at(0, 9, 0), at(0, 10, 0), at(0, 600, 0), at(10, 0, 0)}
DueNext ==
    \/ \E s \in Sessions, kw \in DueKws : rule_save_created(s, "interval", kw)
    \/ \E s \in Sessions, id \in RuleIds, last_run_at \in LastRuns,
              reference_time \in ReferenceTimes :
           read_due(s, id, last_run_at, reference_time)
SpecDue == Init /\ [][DueNext]_vars

\* Crontab rows in several timezones, and their schedules asked for the
\* next run.
CronTzKws ==
    {[minute |-> "0", hour |-> h, timezone |-> z] : h \in {"9", "*"}, z \in Timezones}
CronReferenceTimes == {0, 300, 600}
CronNext ==
    \/ \E s \in Sessions, kw \in CronTzKws : rule_save_created(s, "crontab", kw)
    \/ \E s \in Sessions, id \in RuleIds, reference_time \in CronReferenceTimes :
           read_next_run(s, id, reference_time)
SpecCron == Init /\ [][CronNext]_vars

\* Every operation, by any session, in any order.
Next ==
    \/ \E s \in Sessions : Resolve(s)
    \/ ChangeNext
    \/ TxnNext
    \/ TaskNext
    \/ RuleNext
    \/ DueNext
    \/ CronNext
Spec == Init /\ [][Next]_vars

\* ------------------------------------------------------------------ claims
Resolved(s) == ret[s].op = "from_schedule" /\ ret[s].status = "ok"
SameRequest(s, t) ==
    /\ Resolved(s) /\ Resolved(t)
    /\ ret[s].kind = ret[t].kind
    /\ ret[s].arg = ret[t].arg
Copies(kind, id) ==
    {i \in 1..Len(Table(kind)) : Table(kind)[i] = Table(kind)[id]}
RuleKinds == {"interval", "crontab", "solar"}

\* C1: when callers in different sessions have run from_schedule with the
\* same spec, then once all calls have finished every caller holds the same
\* row identity and the store holds exactly one row with that row's values.
C1_ConcurrentResolveOneRow ==
    (\A s \in Sessions : pc[s] = "idle") =>
        \A s, t \in Sessions :
            SameRequest(s, t) =>
                /\ ret[s].id = ret[t].id
                /\ Cardinality(Copies(ret[s].kind, ret[s].id)) = 1

\* C3: calls made one after the other: two calls with an identical spec
\* return the same row identity, and no rule table holds two rows with the
\* same values.
C3_SequentialDedup ==
    /\ \A s, t \in Sessions : SameRequest(s, t) => ret[s].id = ret[t].id
    /\ \A kind \in RuleKinds : \A i \in 1..Len(Table(kind)) : Copies(kind, i) = {i}

C3_Witness ==
    \E s, t \in Sessions :
        /\ s # t /\ SameRequest(s, t)
        /\ ret[s].id = ret[t].id
        /\ ret[s].id \in 1..Len(Table(ret[s].kind))

\* C9: the row CrontabSchedule.from_schedule returns equals the requested
\* spec on minute, hour, day_of_week, day_of_month, month_of_year and
\* timezone, a spec without a timezone standing for UTC.
C9_CrontabExactMatch ==
    \A s \in Sessions :
        (Resolved(s) /\ ret[s].kind = "crontab") =>
            LET row == celery_crontab_schedule[ret[s].id]
                arg == ret[s].arg
            IN  /\ \A f \in CronFields : row[f] = arg[f]
                /\ row.timezone = (IF arg.tz = NoTz THEN "UTC" ELSE arg.tz)

\* C2: every transaction that commits task mutations also commits a bump
\* of the change version.
C2_TaskMutationBumps == txlog.tasks > 0 => txlog.bump

\* The change version as session s reads it through last_change.
LastChange(s) == query_get(s)
Finishes(s, from) == pc[s] = from /\ pc'[s] = "idle"
Returns(s, op) == ret'[s].op = op /\ ret'[s] # ret[s]

\* C4: an update_changed call leaves last_change() at least what it was
\* when the call loaded the row, and a last_change read leaves the stored
\* last_update as it was.
C4_ChangeVersionMonotonic ==
    [][\A s \in Sessions :
          /\ Finishes(s, "uc_added") => LastChange(s)' >= call[s].loaded
          /\ Returns(s, "last_change") =>
                 celery_periodic_task_changed' = celery_periodic_task_changed]_vars

C4_Witness ==
    \E s, t \in Sessions :
        /\ ret[s].op = "update_changed" /\ ret[s].status = "ok"
        /\ ret[t].op = "last_change" /\ ret[t].value > 0
        /\ 1 \in DOMAIN celery_periodic_task_changed
        /\ celery_periodic_task_changed[1].last_update > 0

\* C5: the change-version table holds at most one row, its id is 1, and
\* every update_changed completes without error.
C5_SingletonNoError ==
    /\ DOMAIN celery_periodic_task_changed \subseteq {1}
    /\ \A s \in Sessions : ret[s].op = "update_changed" => ret[s].status = "ok"

\* C6: a step in which a session's queued task mutations are given up
\* (the commit failed or the session was rolled back) leaves the
\* change-version table as it was.
C6_AbortLeavesVersion ==
    [][\A s \in Sessions :
          (pending[s] # <<>> /\ pending'[s] = <<>> /\ ret'[s].status # "ok") =>
              celery_periodic_task_changed' = celery_periodic_task_changed]_vars

C6_Witness ==
    \E s \in Sessions :
        /\ ret[s].op = "update_changed"
        /\ ret[s].status = "IntegrityError"
        /\ ret[s].lost > 0

\* C7: changed() for an instance whose no_changes is true returns without
\* error and leaves the change-version table and last_change() as they were.
C7_NoChangesNoBump ==
    [][\A s \in Sessions :
          (Returns(s, "changed") /\ ret'[s].no_changes) =>
              /\ ret'[s].status = "ok"
              /\ celery_periodic_task_changed' = celery_periodic_task_changed
              /\ LastChange(s)' = LastChange(s)]_vars

C7_Witness ==
    \E s \in Sessions :
        /\ ret[s].op = "changed" /\ ret[s].no_changes
        /\ 1 \in DOMAIN celery_periodic_task_changed

\* The schedules of the rule references of task that are populated.
Populated(task) ==
    {IntervalSchedule_schedule(celery_interval_schedule[i]) :
        i \in {interval(task)} \ {Null}}
    \cup {CrontabSchedule_schedule(celery_crontab_schedule[i]) :
        i \in {crontab(task)} \ {Null}}
    \cup {SolarSchedule_schedule(celery_solar_schedule[i]) :
        i \in {solar(task)} \ {Null}}

\* C8: reading task.schedule changes nothing stored; it yields the schedule
\* of a populated rule reference, and the ValueError when none is populated.
C8_ScheduleResolves ==
    [][\A s \in Sessions :
          Returns(s, "schedule") =>
              LET task == celery_periodic_task[ret'[s].id]
              IN  /\ UNCHANGED store
                  /\ Populated(task) = {} => ret'[s].status = "ValueError"
                  /\ Populated(task) # {} =>
                         ret'[s].status = "ok" /\ ret'[s].value \in Populated(task)]_vars

C8_Witness ==
    \E s, t \in Sessions :
        /\ ret[s].op = "schedule" /\ ret[s].status = "ValueError"
        /\ ret[t].op = "schedule" /\ ret[t].status = "ok"

\* C10: every stored task has at most one of interval_id, crontab_id and
\* solar_id set.
C10_OneRuleReference ==
    \A id \in DOMAIN celery_periodic_task :
        Cardinality({c \in {"interval_id", "crontab_id", "solar_id"} :
                        celery_periodic_task[id][c] # Null}) <= 1

\* C11: every stored IntervalSchedule row has every > 0, whether it was
\* made through create or resolved by from_schedule from any run_every,
\* zero and negative ones included.
C11_EveryPositive ==
    \A i \in 1..Len(celery_interval_schedule) : celery_interval_schedule[i].every > 0

\* C12: a rule row keeps the field values it was inserted with: no step
\* changes a row that exists in a rule table.
C12_RuleRowsImmutable ==
    [][\A kind \in RuleKinds :
          \A i \in 1..Len(Table(kind)) : Table(kind)'[i] = Table(kind)[i]]_vars

\* The legal values of the rule fields: a crontab field-spec stands for
\* values of its field's range; the solar events and coordinates.
LegalCrontab(row) ==
    \A f \in CronFields : row[f] = "*" \/ CronValues(row[f]) \subseteq CronDomain[f]
LegalSolar(row) ==
    /\ row.event \in {"sunrise", "sunset"}
    /\ row.latitude \in -90..90
    /\ row.longitude \in -180..180

\* C13: no rule table ever holds a row with a field value outside its legal
\* domain: a spec such as hour = 25 or latitude = 91 is rejected when the
\* rule is created.
C13_InvalidRuleRejected ==
    /\ \A i \in 1..Len(celery_crontab_schedule) : LegalCrontab(celery_crontab_schedule[i])
    /\ \A i \in 1..Len(celery_solar_schedule) : LegalSolar(celery_solar_schedule[i])

\* The duration of one unit of period, in seconds and microseconds, and the
\* point in time every units of period after last_run_at.
UnitSeconds ==
    [microseconds |-> 0, seconds |-> 1, minutes |-> 60, hours |-> 3600, days |-> 86400]
UnitMicroseconds ==
    [microseconds |-> 1, seconds |-> 0, minutes |-> 0, hours |-> 0, days |-> 0]
Elapsed(t) == <<t.days * 86400 + t.seconds, t.microseconds>>
EveryAfter(last_run_at, every, period) ==
    LET micros == Elapsed(last_run_at)[2] + every * UnitMicroseconds[period]
    IN  <<Elapsed(last_run_at)[1] + every * UnitSeconds[period] + micros \div 1000000,
          micros % 1000000>>
NotBefore(t, u) == t[1] > u[1] \/ (t[1] = u[1] /\ t[2] >= u[2])

\* C14: the schedule of an IntervalSchedule row (every, period) reports
\* next_run_time = last_run_at + every units of period and is due exactly
\* when reference_time >= next_run_time; with every = 10 seconds and
\* last_run_at = 00:00:00, due(00:00:09) is (false, 00:00:10) and
\* due(00:00:10) is (true, 00:00:10).
C14_IntervalDue ==
    \A s \in Sessions :
        ret[s].op = "due" =>
            LET row == celery_interval_schedule[ret[s].id]
                next == EveryAfter(ret[s].last_run_at, row.every, row.period)
            IN  /\ Elapsed(ret[s].value.next_run_time) = next
                /\ ret[s].value.is_due = NotBefore(Elapsed(ret[s].reference_time), next)
                /\ (row = [every |-> 10, period |-> SECONDS]
                        /\ ret[s].last_run_at = at(0, 0, 0)) =>
                       /\ ret[s].reference_time = at(0, 9, 0) =>
                              ret[s].value = [is_due |-> FALSE, next_run_time |-> at(0, 10, 0)]
                       /\ ret[s].reference_time = at(0, 10, 0) =>
                              ret[s].value = [is_due |-> TRUE, next_run_time |-> at(0, 10, 0)]

C14_Witness ==
    \E s, t \in Sessions :
        /\ ret[s].op = "due" /\ ret[t].op = "due"
        /\ ret[s].id = ret[t].id
        /\ celery_interval_schedule[ret[s].id] = [every |-> 10, period |-> SECONDS]
        /\ ret[s].last_run_at = at(0, 0, 0) /\ ret[t].last_run_at = at(0, 0, 0)
        /\ ret[s].reference_time = at(0, 9, 0) /\ ~ret[s].value.is_due
        /\ ret[t].reference_time = at(0, 10, 0) /\ ret[t].value.is_due

\* C15: a crontab row's schedule is evaluated in the row's timezone: for
\* two rows equal on the five fields, with a set hour and timezones whose
\* UTC offsets differ, the next runs after one reference instant differ by
\* the difference of the offsets (on the 24-hour clock).
C15_CrontabInRowTimezone ==
    \A s, t \in Sessions :
        (ret[s].op = "next_run" /\ ret[t].op = "next_run"
            /\ ret[s].reference_time = ret[t].reference_time) =>
            LET r1 == celery_crontab_schedule[ret[s].id]
                r2 == celery_crontab_schedule[ret[t].id]
            IN  ((\A f \in CronFields : r1[f] = r2[f]) /\ r1.hour # "*"
                    /\ utcoffset(r1.timezone) # utcoffset(r2.timezone)) =>
                    (ret[s].value - ret[t].value) % 1440
                        = (utcoffset(r2.timezone) - utcoffset(r1.timezone)) % 1440

\* C16: last_change(session) returns None as long as no update_changed has
\* completed, and otherwise the last_update that the most recent completed
\* update_changed wrote, which is the stored one.
C16_LastChangeCurrent ==
    [][\A s \in Sessions :
          Returns(s, "last_change") =>
              ret'[s].value =
                  IF 1 \in DOMAIN celery_periodic_task_changed
                  THEN celery_periodic_task_changed[1].last_update
                  ELSE None]_vars

\* C17: changed() for an instance whose no_changes is false returns without
\* error, and on return the change-version row exists with last_update the
\* time of the call.
C17_ChangedBumps ==
    [][\A s \in Sessions :
          (Returns(s, "changed") /\ ~ret'[s].no_changes) =>
              /\ ret'[s].status = "ok"
              /\ 1 \in DOMAIN celery_periodic_task_changed'
              /\ celery_periodic_task_changed'[1].last_update = now]_vars

RuleRows ==
    Len(celery_interval_schedule) + Len(celery_crontab_schedule) + Len(celery_solar_schedule)

\* C18: a from_schedule call that finds a matching row returns it and
\* leaves the store as it was: no row inserted or modified, nothing
\* committed, the rule tables' row counts and the change-version record
\* the same after the call as before.
C18_HitLeavesStore ==
    [][\A s \in Sessions :
          (pc[s] = "idle" /\ pc'[s] = "idle" /\ Returns(s, "from_schedule")) =>
              /\ ret'[s].id \in 1..Len(Table(ret'[s].kind))
              /\ UNCHANGED <<store, pending, txlog>>
              /\ RuleRows' = RuleRows]_vars

C18_Witness ==
    \E s, t \in Sessions :
        /\ s # t /\ Resolved(s) /\ Resolved(t)
        /\ ret[s].kind = ret[t].kind /\ ret[s].id = ret[t].id
        /\ RuleRows = 1

\* C19: the row IntervalSchedule.from_schedule(session, s, period) returns
\* for a schedule s of a whole positive number of seconds, whatever the
\* period, yields a schedule whose duration is s.run_every.
C19_IntervalRoundTrip ==
    \A s \in Sessions :
        (Resolved(s) /\ ret[s].kind = "interval"
            /\ total_seconds(ret[s].arg.schedule.run_every) > 0) =>
            IntervalSchedule_schedule(celery_interval_schedule[ret[s].id]).run_every
                = ret[s].arg.schedule.run_every

\* Keyword sets that touch no rule reference of a task.
OtherFieldKws ==
    {[name |-> "b"], [enabled |-> FALSE], [total_run_count |-> 1],
     [name |-> "b", enabled |-> FALSE, total_run_count |-> 1]}

\* C20: task.schedule is the interval rule's schedule when interval is set,
\* else the crontab rule's when crontab is set, else the solar rule's, and
\* it is the same whatever the task's other fields hold.
C20_SchedulePrecedence ==
    [][\A s \in Sessions :
          Returns(s, "schedule") =>
              LET task == celery_periodic_task[ret'[s].id]
              IN  /\ interval(task) # Null =>
                         ret'[s].value =
                             IntervalSchedule_schedule(celery_interval_schedule[interval(task)])
                  /\ (interval(task) = Null /\ crontab(task) # Null) =>
                         ret'[s].value =
                             CrontabSchedule_schedule(celery_crontab_schedule[crontab(task)])
                  /\ (interval(task) = Null /\ crontab(task) = Null /\ solar(task) # Null) =>
                         ret'[s].value =
                             SolarSchedule_schedule(celery_solar_schedule[solar(task)])
                  /\ \A kw \in OtherFieldKws :
                         PeriodicTask_schedule(update(task, kw)).value = ret'[s].value]_vars

C20_Witness ==
    \E s \in Sessions :
        /\ ret[s].op = "schedule" /\ ret[s].status = "ok"
        /\ ret[s].id \in DOMAIN celery_periodic_task
        /\ interval(celery_periodic_task[ret[s].id]) # Null
        /\ crontab(celery_periodic_task[ret[s].id]) # Null
        /\ ret[s].value.type = "schedule"

====
